---- MODULE Spec2Model ----
(***************************************************************************)
(* Model of prepare_data_label.py: the pipeline files_to_tfrecord_fixedlen *)
(* (overlap check, corpus join, vocabulary, windowing, TFRecord writing,   *)
(* vocabulary dump) and the windowing function text_to_seqs, which a       *)
(* client may also import and call directly.                               *)
(*                                                                         *)
(* Python strings are sequences of characters; a character is a one-letter *)
(* TLA+ string.  A dict is a function whose domain is its key set; keys    *)
(* are Python strings, so the key of character c is <<c>> and the key      *)
(* "<S>" is the three-character string << "<", "S", ">" >>.                *)
(* The float overlap is the exact rational overlap[1] / overlap[2]; for    *)
(* every (overlap, seq_len) pair enumerated below the IEEE double product  *)
(* overlap * seq_len has the same ceiling as the exact product.            *)
(* A local variable or an output file is Unbound until the code assigns or *)
(* creates it, and Bound(v) afterwards.                                    *)
(***************************************************************************)
EXTENDS Integers, Sequences, FiniteSets, TLC

VARIABLES entry, files, seq_len, overlap, pc, error, full_text, ch_to_ind,
          steps_to_advance, cands, seqs, records_file, vocab_file

vars == <<entry, files, seq_len, overlap, pc, error, full_text, ch_to_ind,
          steps_to_advance, cands, seqs, records_file, vocab_file>>

----------------------------------------------------------------------------
(* Bounds of the enumerated inputs *)

MaxLen == 4
MaxSeqLen == 5

----------------------------------------------------------------------------
(* Values *)

Unbound == <<>>
Bound(v) == <<v>>
Val(x) == x[1]
IsBound(x) == x # <<>>

Min(a, b) == IF a < b THEN a ELSE b
Max(a, b) == IF a > b THEN a ELSE b

RangeOf(s) == {s[k] : k \in 1..Len(s)}

\* the seq_len / overlap pair of the docstrings' example
DocSeqLen == 200
DocOverlap == <<1, 10>>

Alphabet == {"a", "b"}
Texts(n) == UNION {[1..k -> Alphabet] : k \in 0..n}
ExampleTexts == {<<"a", "b", "c", "a", "b", "c">>, <<"a", "b", "c", "d", "e">>}

\* the positional *files argument, each file given by what open(file).read() returns
FileLists ==
    {<<>>} \cup {<<t>> : t \in Texts(MaxLen) \cup ExampleTexts}
           \cup {<<t, u>> : t \in Texts(1), u \in Texts(1)}

SeqLens == (0..MaxSeqLen) \cup {DocSeqLen}
Overlaps == {<<n, 10>> : n \in (-1)..11}

----------------------------------------------------------------------------
(* Python built-ins used by the code *)

\* (mutation of Ceil: rounds down)
CeilRoundsDown(num, den) == num \div den

\* math.ceil of the rational num/den, den > 0
Ceil(num, den) == -((-num) \div den)

\* "\n".join(texts)
RECURSIVE Join(_)
Join(texts) ==
    IF Len(texts) = 0 THEN <<>>
    ELSE IF Len(texts) = 1 THEN texts[1]
    ELSE texts[1] \o <<"\n">> \o Join(Tail(texts))

\* (mutation of PyRangeRaises: a zero step is taken for an empty range)
PyRangeNeverRaises(step) == FALSE

\* range(0, stop, step) raises ValueError ("arg 3 must not be zero")
PyRangeRaises(step) == step = 0

\* list(range(0, stop, step)) for step # 0 and stop >= 0
PyRange(stop, step) ==
    IF step > 0
    THEN [k \in 1..((stop + step - 1) \div step) |-> (k - 1) * step]
    ELSE <<>>

PyIndex(i, n) == IF i < 0 THEN Max(i + n, 0) ELSE Min(i, n)

\* (mutation of PySlice: the slice starts one character late)
PySliceShifted(text, lo, hi) ==
    SubSeq(text, PyIndex(lo + 1, Len(text)) + 1, PyIndex(hi + 1, Len(text)))

\* text[lo:hi]
PySlice(text, lo, hi) ==
    SubSeq(text, PyIndex(lo, Len(text)) + 1, PyIndex(hi, Len(text)))

\* d[key] = val
Put(d, key, val) ==
    [k \in DOMAIN d \cup {key} |-> IF k = key THEN val ELSE d[k]]

\* (mutation of ValidOverlap: the upper end is included)
ValidOverlapInclusive(ov) == 0 <= ov[1] /\ ov[1] <= ov[2]

\* "0 <= overlap < 1"
ValidOverlap(ov) == 0 <= ov[1] /\ ov[1] < ov[2]

----------------------------------------------------------------------------
(* files_to_tfrecord_fixedlen, lines 34-36: the vocabulary *)

SentinelKey == << "<", "S", ">" >>

CharKey(c) == <<c>>

\* (mutation of IndexRange: range(len(chars)))
IndexRangeFromZero(K) == 0..(K - 1)

\* range(1, len(chars)+1)
IndexRange(K) == 1..K

\* dict(zip(chars, range(1, len(chars)+1))): the set is iterated in an
\* arbitrary order, so any one-to-one pairing with the range can result
ZipDicts(chars) ==
    LET keys == {CharKey(c) : c \in chars}
    IN  {d \in [keys -> IndexRange(Cardinality(chars))] :
            \A a, b \in keys : a # b => d[a] # d[b]}

Vocabularies(text) == {Put(d, SentinelKey, 0) : d \in ZipDicts(RangeOf(text))}

----------------------------------------------------------------------------
(* chs_to_inds and text_to_seqs *)

chs_to_inds(char_list, mapping) ==
    [k \in 1..Len(char_list) |-> mapping[CharKey(char_list[k])]]

\* mapping[ch] raises KeyError for some ch of char_list
chs_to_inds_raises(char_list, mapping) ==
    \E k \in 1..Len(char_list) : CharKey(char_list[k]) \notin DOMAIN mapping

\* seq_len -= 1 (use_bos is always True)
ContentLen(sl) == sl - 1

\* seq_len - int(ceil(overlap * seq_len)), seq_len already decremented
StepsToAdvance(cl, ov) == cl - Ceil(ov[1] * cl, ov[2])

\* (mutation of Candidate: the marker is prepended, as the docstrings word it)
CandidateBosFirst(text, ind, cl, mapping) ==
    <<mapping[SentinelKey]>> \o chs_to_inds(PySlice(text, ind, ind + cl), mapping)

\* one element of the list comprehension of lines 77-78
Candidate(text, ind, cl, mapping) ==
    chs_to_inds(PySlice(text, ind, ind + cl), mapping) \o <<mapping[SentinelKey]>>

\* (mutation of KeepEqualLength: nothing is thrown away)
KeepAll(sq) == sq

\* line 80: keep the sequences as long as the first one
KeepEqualLength(sq) == SelectSeq(sq, LAMBDA s : Len(s) = Len(sq[1]))

\* The outcome of a call: the exception raised ("none" if it returns), the
\* locals steps_to_advance and seqs as far as they were bound, the result.
text_to_seqs(text, sl, mapping, ov) ==
    LET cl   == ContentLen(sl)
        step == StepsToAdvance(cl, ov)
        offs == PyRange(Len(text), step)
        all  == [k \in 1..Len(offs) |-> Candidate(text, offs[k], cl, mapping)]
    IN  IF PyRangeRaises(step)
        THEN [error |-> "ValueError", steps |-> Bound(step),
              cands |-> Unbound, result |-> Unbound]
        ELSE IF \E k \in 1..Len(offs) :
                    chs_to_inds_raises(PySlice(text, offs[k], offs[k] + cl), mapping)
        THEN [error |-> "KeyError", steps |-> Bound(step),
              cands |-> Unbound, result |-> Unbound]
        ELSE [error |-> "none", steps |-> Bound(step),
              cands |-> Bound(all), result |-> Bound(KeepEqualLength(all))]

----------------------------------------------------------------------------
(* The state machine *)

InitPipeline ==
    /\ entry = "files_to_tfrecord_fixedlen"
    /\ files \in FileLists
    /\ pc = "check_overlap"
    /\ full_text = Unbound
    /\ ch_to_ind = Unbound

\* a direct call text_to_seqs(text, seq_len, mapping, overlap): the mapping is
\* a vocabulary of the text, or the vocabulary of an empty corpus
InitCall ==
    /\ entry = "text_to_seqs"
    /\ files = <<>>
    /\ pc = "text_to_seqs"
    /\ \E text \in Texts(MaxLen) \cup ExampleTexts :
          /\ full_text = Bound(text)
          /\ \E m \in Vocabularies(text) \cup Vocabularies(<<>>) :
                ch_to_ind = Bound(m)

Init ==
    /\ seq_len \in SeqLens
    /\ overlap \in Overlaps
    /\ error = "none"
    /\ steps_to_advance = Unbound
    /\ cands = Unbound
    /\ seqs = Unbound
    /\ records_file = Unbound
    /\ vocab_file = Unbound
    /\ (InitPipeline \/ InitCall)

\* lines 27-29
CheckOverlap ==
    /\ pc = "check_overlap"
    /\ IF ValidOverlap(overlap)
       THEN pc' = "read" /\ error' = error
       ELSE pc' = "raised" /\ error' = "ValueError"
    /\ UNCHANGED <<entry, files, seq_len, overlap, full_text, ch_to_ind,
                   steps_to_advance, cands, seqs, records_file, vocab_file>>

\* line 31
ReadFiles ==
    /\ pc = "read"
    /\ full_text' = Bound(Join(files))
    /\ pc' = "build_vocab"
    /\ UNCHANGED <<entry, files, seq_len, overlap, error, ch_to_ind,
                   steps_to_advance, cands, seqs, records_file, vocab_file>>

\* lines 34-36
BuildVocab ==
    /\ pc = "build_vocab"
    /\ \E m \in Vocabularies(Val(full_text)) : ch_to_ind' = Bound(m)
    /\ pc' = "text_to_seqs"
    /\ UNCHANGED <<entry, files, seq_len, overlap, error, full_text,
                   steps_to_advance, cands, seqs, records_file, vocab_file>>

\* line 38, or the direct call: the whole of text_to_seqs
TextToSeqs ==
    /\ pc = "text_to_seqs"
    /\ LET r == text_to_seqs(Val(full_text), seq_len, Val(ch_to_ind), overlap)
       IN  /\ error' = r.error
           /\ steps_to_advance' = r.steps
           /\ cands' = r.cands
           /\ seqs' = r.result
           /\ pc' = IF r.error # "none" THEN "raised"
                    ELSE IF entry = "text_to_seqs" THEN "returned"
                    ELSE "open_writer"
    /\ UNCHANGED <<entry, files, seq_len, overlap, full_text, ch_to_ind,
                   records_file, vocab_file>>

\* line 41: the writer creates out_path + ".tfrecords"
OpenWriter ==
    /\ pc = "open_writer"
    /\ records_file' = Bound(<<>>)
    /\ pc' = "write"
    /\ UNCHANGED <<entry, files, seq_len, overlap, error, full_text, ch_to_ind,
                   steps_to_advance, cands, seqs, vocab_file>>

\* lines 42-46: one iteration of the loop over enumerate(seqs)
WriteRecord ==
    /\ pc = "write"
    /\ Len(Val(records_file)) < Len(Val(seqs))
    /\ records_file' =
          Bound(Append(Val(records_file), Val(seqs)[Len(Val(records_file)) + 1]))
    /\ UNCHANGED <<entry, files, seq_len, overlap, pc, error, full_text,
                   ch_to_ind, steps_to_advance, cands, seqs, vocab_file>>

\* line 49, after the loop
DumpVocab ==
    /\ pc = "write"
    /\ Len(Val(records_file)) = Len(Val(seqs))
    /\ vocab_file' = Bound(Val(ch_to_ind))
    /\ pc' = "done"
    /\ UNCHANGED <<entry, files, seq_len, overlap, error, full_text, ch_to_ind,
                   steps_to_advance, cands, seqs, records_file>>

Next ==
    \/ CheckOverlap
    \/ ReadFiles
    \/ BuildVocab
    \/ TextToSeqs
    \/ OpenWriter
    \/ WriteRecord
    \/ DumpVocab

Spec == Init /\ [][Next]_vars

----------------------------------------------------------------------------
(* Vocabulary of the claims *)

Pipeline == entry = "files_to_tfrecord_fixedlen"
DirectCall == entry = "text_to_seqs"

\* text_to_seqs has returned (its result is bound)
Returned == IsBound(seqs)

\* the mapping is the vocabulary of exactly this corpus
BuiltFromCorpus ==
    /\ IsBound(full_text) /\ IsBound(ch_to_ind)
    /\ DOMAIN Val(ch_to_ind) =
          {<<c>> : c \in RangeOf(Val(full_text))} \cup {SentinelKey}

\* the arguments are the ones the windowing contract covers
ValidArgs == seq_len >= 2 /\ 0 <= overlap[1] /\ overlap[1] < overlap[2]

\* corpus[a : b] for 0 <= a, written out position by position
CorpusSlice(text, a, b) ==
    [j \in 1..(Min(b, Len(text)) - a) |-> text[a + j]]

\* a window without its last element, read back through the inverse vocabulary
Decode(w, m) ==
    [j \in 1..(Len(w) - 1) |-> (CHOOSE key \in DOMAIN m : m[key] = w[j])[1]]

\* C1: for seq_len >= 2 and overlap in [0,1), every window text_to_seqs
\* returns has length exactly seq_len, also when the corpus is non-empty
\* but shorter than seq_len-1.
C1_WindowLength ==
    (Returned /\ ValidArgs) =>
        \A k \in 1..Len(Val(seqs)) : Len(Val(seqs)[k]) = seq_len

C3_Vocabulary ==
    (Pipeline /\ IsBound(ch_to_ind)) =>
        LET m     == Val(ch_to_ind)
            chars == RangeOf(Val(full_text))
            K     == Cardinality(chars)
        IN  /\ Cardinality(DOMAIN m) = K + 1
            /\ SentinelKey \in DOMAIN m /\ m[SentinelKey] = 0
            /\ \A c \in chars :
                  /\ <<c>> \in DOMAIN m /\ <<c>> # SentinelKey
                  /\ m[<<c>>] \in 1..K
            /\ \A c, d \in chars : c # d => m[<<c>>] # m[<<d>>]
            /\ {m[key] : key \in DOMAIN m} = 0..K
            /\ (IsBound(vocab_file) => Val(vocab_file) = m)

C3_Witness ==
    /\ Pipeline /\ IsBound(vocab_file)
    /\ Cardinality(RangeOf(Val(full_text))) = 3

\* C4 as stated: text_to_seqs itself fails with an invalid-argument error for
\* every overlap outside [0,1), for every corpus and seq_len >= 2, and
\* returns no windows.
C4_Original ==
    (DirectCall /\ pc # "text_to_seqs" /\ BuiltFromCorpus
       /\ seq_len >= 2 /\ ~(0 <= overlap[1] /\ overlap[1] < overlap[2])) =>
        (error = "ValueError" /\ ~Returned)

\* C4 amended: files_to_tfrecord_fixedlen fails with ValueError for every
\* overlap outside [0,1) before text_to_seqs is called, so no windows exist;
\* text_to_seqs called directly does not check overlap: it raises ValueError
\* exactly when the computed stride is 0 (as for overlap = 1.0) and returns
\* otherwise (as for overlap = -0.1 with seq_len >= 2).
C4_Amended ==
    /\ (Pipeline /\ pc # "check_overlap"
          /\ ~(0 <= overlap[1] /\ overlap[1] < overlap[2])) =>
            /\ pc = "raised" /\ error = "ValueError"
            /\ ~IsBound(steps_to_advance) /\ ~IsBound(cands) /\ ~Returned
    /\ (DirectCall /\ pc # "text_to_seqs" /\ BuiltFromCorpus) =>
            /\ (error = "ValueError") = (Val(steps_to_advance) = 0)
            /\ (error = "none") = Returned
            /\ (overlap[1] = overlap[2] => error = "ValueError")
            /\ (overlap[1] < 0 /\ seq_len >= 2 => Returned)

C4_Witness ==
    /\ Pipeline /\ pc = "raised" /\ overlap[1] < 0
    /\ Len(files) = 1 /\ Len(files[1]) >= 2 /\ seq_len = 2

\* C5 as stated: for overlap in [0,1) and content_len = seq_len-1 >= 1 the
\* stride content_len - ceil(overlap * content_len) is >= 1.
C5_Original ==
    (IsBound(steps_to_advance) /\ ValidArgs) => Val(steps_to_advance) >= 1

\* C5 amended: for overlap in [0,1) and content_len >= 1 the stride is >= 0;
\* it is >= 1 exactly when overlap * content_len <= content_len - 1 and is 0
\* otherwise (as for content_len 3 and overlap 0.9).
C5_Amended ==
    (IsBound(steps_to_advance) /\ ValidArgs) =>
        /\ Val(steps_to_advance) >= 0
        /\ (Val(steps_to_advance) >= 1)
              = (overlap[1] * (seq_len - 1) <= (seq_len - 2) * overlap[2])

C5_Witness ==
    /\ Returned /\ ValidArgs
    /\ overlap[1] > 0 /\ seq_len >= 4
    /\ Val(steps_to_advance) = 1

\* the computed stride of the run's arguments is not positive
NonPositiveStride ==
    (seq_len - 1) - Ceil(overlap[1] * (seq_len - 1), overlap[2]) <= 0

\* C6 as stated: in a run of files_to_tfrecord_fixedlen with overlap outside
\* [0,1) or a non-positive stride, the error is raised before reading,
\* vocabulary building or windowing, and no file is ever written.
C6_Original ==
    (Pipeline /\ (~(0 <= overlap[1] /\ overlap[1] < overlap[2])
                    \/ NonPositiveStride)) =>
        /\ ~IsBound(records_file) /\ ~IsBound(vocab_file)
        /\ ~IsBound(full_text) /\ ~IsBound(ch_to_ind)
        /\ ~IsBound(steps_to_advance)
        /\ pc \in {"check_overlap", "raised"}
        /\ (pc = "raised" => error = "ValueError")

\* C6 amended: with overlap outside [0,1) ValueError is raised before any
\* processing step and nothing is written; with overlap in [0,1) and a zero
\* stride ValueError is raised only inside the windowing, after the input
\* was read and the vocabulary built, and still nothing is written; with
\* seq_len <= 0 (negative stride) no error is raised and the run ends with
\* an empty records file and the vocabulary file.
C6_Amended ==
    Pipeline =>
        /\ ~(0 <= overlap[1] /\ overlap[1] < overlap[2]) =>
              /\ pc \in {"check_overlap", "raised"}
              /\ (pc = "raised" => error = "ValueError")
              /\ ~IsBound(full_text) /\ ~IsBound(ch_to_ind)
              /\ ~IsBound(steps_to_advance)
              /\ ~IsBound(records_file) /\ ~IsBound(vocab_file)
        /\ (0 <= overlap[1] /\ overlap[1] < overlap[2] /\ NonPositiveStride
              /\ seq_len >= 1) =>
              /\ pc \in {"check_overlap", "read", "build_vocab",
                         "text_to_seqs", "raised"}
              /\ (pc = "raised" =>
                    /\ error = "ValueError"
                    /\ IsBound(full_text) /\ IsBound(ch_to_ind)
                    /\ steps_to_advance = <<0>>)
              /\ ~IsBound(records_file) /\ ~IsBound(vocab_file)
        /\ (0 <= overlap[1] /\ overlap[1] < overlap[2] /\ seq_len <= 0) =>
              /\ pc # "raised" /\ error = "none"
              /\ (pc = "done" =>
                    records_file = <<(<<>>)>> /\ IsBound(vocab_file))

C6_Witness ==
    /\ Pipeline /\ pc = "raised"
    /\ overlap[1] > 0 /\ overlap[1] < overlap[2] /\ seq_len >= 3
    /\ Len(Val(full_text)) >= 2

\* C7: for valid seq_len and overlap, a corpus shorter than seq_len-1 gives
\* an empty result, and so does the empty corpus.
C7_ShortCorpusEmpty ==
    (Returned /\ ValidArgs /\ Len(Val(full_text)) < seq_len - 1) =>
        Val(seqs) = <<>>

\* C8: with the vocabulary built from the corpus, the k-th returned window
\* (k = 0,1,...), sentinel stripped and mapped back through the inverse
\* vocabulary, is corpus[k*stride : k*stride + content_len]; the windows
\* come in increasing corpus position.
C8_RoundTrip ==
    (Returned /\ ValidArgs /\ BuiltFromCorpus) =>
        \A k \in 1..Len(Val(seqs)) :
            Decode(Val(seqs)[k], Val(ch_to_ind))
              = CorpusSlice(Val(full_text),
                            (k - 1) * Val(steps_to_advance),
                            (k - 1) * Val(steps_to_advance) + seq_len - 1)

C8_Witness ==
    /\ Returned /\ ValidArgs /\ BuiltFromCorpus
    /\ Len(Val(seqs)) >= 2
    /\ Val(steps_to_advance) < seq_len - 1
    /\ Val(seqs)[1] # Val(seqs)[2]

\* C9: with seq_len = 200 and overlap = 0.1 the windowing advances exactly
\* 180 characters between successive sequences, as the docstrings say.
C9_DocstringStride ==
    (Returned /\ seq_len = DocSeqLen /\ overlap = DocOverlap)
        => Val(steps_to_advance) = 180

\* C10: for len(corpus) >= content_len and stride >= 1 the discard step drops
\* only a suffix of the candidates (the partial windows), leaving one window
\* per offset i in {0, stride, ...} with i + content_len <= len(corpus), that
\* is floor((len(corpus) - content_len) / stride) + 1 windows; "abcabc" with
\* seq_len 4 and overlap 0 gives 2 windows, "abcde" gives 1.
C10_DiscardSuffix ==
    (Returned /\ ValidArgs /\ Len(Val(full_text)) >= seq_len - 1) =>
        LET text   == Val(full_text)
            cl     == seq_len - 1
            stride == Val(steps_to_advance)
            n      == ((Len(text) - cl) \div stride) + 1
        IN  /\ stride >= 1
            /\ Len(Val(seqs)) = n
            /\ n <= Len(Val(cands))
            /\ Val(seqs) = SubSeq(Val(cands), 1, n)
            /\ \A k \in 1..n : Len(Val(seqs)[k]) = seq_len
            /\ \A k \in (n + 1)..Len(Val(cands)) :
                  /\ (k - 1) * stride + cl > Len(text)
                  /\ Len(Val(cands)[k]) < seq_len
            /\ (text = <<"a", "b", "c", "a", "b", "c">> /\ seq_len = 4
                  /\ overlap[1] = 0) => Len(Val(seqs)) = 2
            /\ (text = <<"a", "b", "c", "d", "e">> /\ seq_len = 4
                  /\ overlap[1] = 0) => Len(Val(seqs)) = 1

C10_Witness ==
    /\ Returned /\ ValidArgs
    /\ Len(Val(full_text)) >= seq_len - 1
    /\ Len(Val(seqs)) >= 2
    /\ Len(Val(cands)) >= Len(Val(seqs)) + 2

====
